---- MODULE Spec2Model ----
(***************************************************************************)
(* node-service-module: the static lifecycle of ServiceModule subtypes,    *)
(* the DependencyContainer they own and the express router adapter.        *)
(*                                                                         *)
(* Static members live on constructor functions.  A subtype inherits a     *)
(* static member of ServiceModule through the prototype chain until an     *)
(* assignment `this.x = ...` gives the subtype a property of its own;      *)
(* a mutation such as `this.providerKeys.push(k)` acts on whatever array   *)
(* the lookup finds, own or inherited.                                     *)
(*                                                                         *)
(* Spec follows one module, SpecPair two subtypes side by side,            *)
(* SpecConstructors one module whose providers' constructors call back     *)
(* into it, return another constructor or throw a string, and              *)
(* SpecContainer a DependencyContainer the program uses directly.          *)
(***************************************************************************)
EXTENDS Integers, Sequences, FiniteSets, TLC

\* ------------------------------------------------------------------ bounds
\* Longest registered-key array the model lets grow (guards the setter).
MaxKeys == 2
\* Most initialize() calls in a row counted on a container used directly.
MaxStreak == 2

\* ------------------------------------------------------------ value domain
\* The base class, holder of the inherited static members.
Base == "ServiceModule"
\* The concrete module subtypes.
Subtypes == {"A", "B"}

\* Router handles handed to the decorator (opaque).
Routers == {"routerX", "routerY"}

\* Injection keys used by providers, and one key nobody provides.
Keys == {"Logger", "config"}
MissingKey == "Missing"

\* Longest provider list handed to the `providers` setter: one provider for
\* each key, or as many for fewer keys.
MaxProviders == Cardinality(Keys)

NoProps == [p \in {} |-> ""]

\* JavaScript `undefined`.
Undefined == [tag |-> "undefined", name |-> "undefined", props |-> NoProps]

\* A plain object literal such as {debug: true}.
ObjectValue(n) == [tag |-> "object", name |-> n, props |-> NoProps]

\* A class (constructor function) reference.
ClassRef(c) == [tag |-> "class", name |-> c, props |-> NoProps]

\* Classes of the model.  Logger constructs normally; the constructor of
\* Database throws an ordinary Error (missing required state); the
\* constructor of Gateway runs `new` on something that is not a constructor,
\* so it fails with the engine's TypeError "... is not a constructor".
ClassNames == {"Logger", "Database", "Gateway"}

\* Own enumerable properties of the constructor reference (static members).
Statics(c) ==
  IF c = "Logger" THEN [p \in {"level"} |-> "static"] ELSE NoProps

\* Properties the zero-argument constructor sets on the new instance.
CtorProps(c) ==
  IF c = "Logger" THEN [p \in {"level", "sink"} |-> "ctor"] ELSE NoProps

\* Values a provider may carry in useClass.
UseClassValues ==
  {ClassRef(c) : c \in ClassNames} \cup {ObjectValue("configValue")}

\* What the program provides under each key: a class that constructs or one
\* that fails on a missing driver for Logger, a literal or a class that
\* throws for config.
UseClassFor(k) ==
  IF k = "Logger"
  THEN {ClassRef("Logger"), ClassRef("Gateway")}
  ELSE {ObjectValue("configValue"), ClassRef("Database")}

\* A thrown error: its constructor name and its message, as a sequence of
\* fragments (indexOf looks for one fragment).
JsError(n, msg) == [name |-> n, message |-> msg]
NotAConstructor == "is not a constructor"

\* Outcome of a call: it returns a value or throws an error.
Returned(v) == [threw |-> FALSE, error |-> JsError("", <<>>), value |-> v]
Thrown(e) == [threw |-> TRUE, error |-> e, value |-> Undefined]

\* err.message.indexOf(fragment) >= 0
MessageHas(err, fragment) ==
  \E i \in 1..Len(err.message) : err.message[i] = fragment

\* ------------------------------------------------------ DependencyContainer
\* A container is the Map in insertion order: a sequence of entries with
\* pairwise distinct keys.
EmptyContainer == <<>>

HasKey(container, key) == \E i \in 1..Len(container) : container[i].key = key

IndexOf(container, key) ==
  CHOOSE i \in 1..Len(container) : container[i].key = key

\* The keys of the Map.
KeySet(container) == {container[i].key : i \in 1..Len(container)}

\* Map.delete then Map.set: a key the Map already holds moves to the end.
register_Reinsert(container, key, value) ==
  LET Others(i) == IF container[i].key = key THEN <<>> ELSE <<container[i]>>
      F[i \in 0..Len(container)] ==
        IF i = 0 THEN <<>> ELSE F[i - 1] \o Others(i)
  IN Append(F[Len(container)], [key |-> key, val |-> value])

\* Map.set: overwrite in place, or append.
register(container, key, value) ==
  IF HasKey(container, key)
  THEN [container EXCEPT ![IndexOf(container, key)].val = value]
  ELSE Append(container, [key |-> key, val |-> value])

\* Map.get
resolve(container, key) ==
  IF HasKey(container, key)
  THEN container[IndexOf(container, key)].val
  ELSE Undefined

\* ------------------------------------------------------------ ServiceModule
VARIABLES
  kind,              \* per subtype: "undeclared", "service" or "express"
  dependencies,      \* per subtype: its own static `dependencies` member
  providerKeys,      \* per class (Base included): the array it owns
  ownsProviderKeys,  \* per subtype: has it a providerKeys property of its own
  _initialized,      \* per subtype: the flag its lookup of _initialized finds
  _expressRouter,    \* per subtype: its own static `_expressRouter` member
  last,              \* the most recent call: receiver, operation, outcome
  trail,             \* the observed module's lifecycle calls, as far as they
                     \* follow a scenario
  accepted,          \* the entries the observed module's setter last
                     \* registered (its provider list, as the container
                     \* keeps it)
  formerKeys,        \* the keys the observed module provided in the life
                     \* its last destroy ended
  supplied,          \* the router handle given to the decorator
  standalone,        \* a DependencyContainer the program made and uses
                     \* directly: its Map
  variant,           \* which DependencyContainer source file that object
                     \* is built from; "none" before it is made
  streak             \* initialize() calls on it since its last register,
                     \* counted up to two

vars == <<kind, dependencies, providerKeys, ownsProviderKeys, _initialized,
          _expressRouter, last, trail, accepted, formerKeys, supplied,
          standalone, variant, streak>>

\* The container used on its own, and what is recorded about it.
standaloneVars == <<standalone, variant, streak>>

\* What the model records about the calls, on top of the program's state.
record == <<trail, accepted, formerKeys, supplied>>

\* The static members of the classes, as the code holds them.
moduleVars == <<dependencies, providerKeys, ownsProviderKeys, _initialized,
                _expressRouter>>

\* A member that was never assigned.
Unset == [defined |-> FALSE, entries |-> EmptyContainer]
\* new DependencyContainer(), possibly with entries registered since.
Container(entries) == [defined |-> TRUE, entries |-> entries]

\* `provide` / the argument of resolveDependency: a string key or a class
\* reference, whose name is the key.
StringKey(k) == [type |-> "string", name |-> k]
ClassKey(c) == [type |-> "function", name |-> c]
NoArg == [type |-> "none", name |-> ""]

\* typeof x === 'string' ? x : x.name
KeyOf(dependency) ==
  IF dependency.type = "string" THEN dependency.name ELSE dependency.name

\* Provider descriptors: string keys, and the class reference Logger
\* providing itself under its name.
Providers ==
  {[provide |-> StringKey(k), useClass |-> v] : k \in Keys, v \in UseClassValues}
  \cup {[provide |-> ClassKey("Logger"), useClass |-> ClassRef("Logger")]}

\* The provider lists handed to the setter.
ProviderLists ==
  {P \in UNION {[1..n -> Providers] : n \in 0..MaxProviders} :
     \A i \in 1..Len(P) : P[i].useClass \in UseClassFor(KeyOf(P[i].provide))}

\* The lists two modules side by side are given: no provider, or one
\* with a string key whose value does not stop initialize.
ShortLists ==
  {P \in ProviderLists :
     /\ Len(P) <= 1
     /\ \A i \in 1..Len(P) :
           /\ P[i].provide.type = "string"
           /\ P[i].useClass \in {ClassRef("Logger"), ObjectValue("configValue")}}

\* Arguments tried on resolveDependency.
Dependencies ==
  {StringKey(k) : k \in Keys \cup {MissingKey}} \cup {ClassKey("Logger")}

\* Errors the module throws, by the condition that raises them.
AlreadyInitialized == JsError("Error", <<"is already initialized">>)
NotInitialized == JsError("Error", <<"has not yet been initialized">>)
NoInstance == JsError("Error", <<"No instance", "has been initialized">>)
ProvidersAfterInit ==
  JsError("Error", <<"Cannot set providers after module is initialized">>)
NothingProvided(key) == JsError("Error", <<"Nothing provided for", key>>)
\* Reading a property of undefined.
UndefinedAccess == JsError("TypeError", <<"Cannot read property of undefined">>)

\* this.providerKeys: the subtype's own array, or the inherited one.
KeyHolder(m) == IF ownsProviderKeys[m] THEN m ELSE Base
KeysOf(m) == providerKeys[KeyHolder(m)]

Includes(list, key) == \E i \in 1..Len(list) : list[i] = key

\* The module whose calls are followed; the other subtype is the rest of
\* the program, sharing the base class with it.
Observed == "A"

\* ------------------------------------------------- resolving and constructing
\* resolveDependency from the key derivation on: the test of the key list
\* and the lookup in the container.
ResolveAfterFlagTest(m, dependency) ==
  LET dependencyKey == KeyOf(dependency)
  IN IF ~Includes(KeysOf(m), dependencyKey)
     THEN Thrown(NothingProvided(dependencyKey))
     ELSE IF ~dependencies[m].defined
          THEN Thrown(UndefinedAccess)
          ELSE Returned(resolve(dependencies[m].entries, dependencyKey))

\* resolveDependency without its test of the flag.
ResolveOutcome_Unguarded(m, dependency) ==
  LET dependencyKey == KeyOf(dependency)
  IN IF ~Includes(KeysOf(m), dependencyKey)
     THEN Thrown(NothingProvided(dependencyKey))
     ELSE IF ~dependencies[m].defined
          THEN Thrown(UndefinedAccess)
          ELSE Returned(resolve(dependencies[m].entries, dependencyKey))

\* What resolveDependency(dependency) does on receiver m.
ResolveOutcome(m, dependency) ==
  IF ~_initialized[m]
  THEN Thrown(NotInitialized)
  ELSE LET dependencyKey == KeyOf(dependency)
       IN IF ~Includes(KeysOf(m), dependencyKey)
          THEN Thrown(NothingProvided(dependencyKey))
          ELSE IF ~dependencies[m].defined
               THEN Thrown(UndefinedAccess)
               ELSE Returned(resolve(dependencies[m].entries, dependencyKey))

\* initialize() setting the flag before it initializes the container.
InitializedDuring_SetFirst(m) == TRUE

\* The flag a call finds while initialize() of m is constructing the
\* providers: initialize() assigns it only after the container's
\* initialize() has returned, so it is still what initialize() tested.
InitializedDuring(m) == _initialized[m]

\* resolveDependency(dependency) on receiver m, called by a constructor
\* that initialize() of m is running.  Past the test of the flag it would
\* look the key up in the container as initialize() found it.
ReentrantOutcome(m, dependency) ==
  IF ~InitializedDuring(m)
  THEN Thrown(NotInitialized)
  ELSE ResolveAfterFlagTest(m, dependency)

\* Classes whose constructor asks the observed module for a dependency:
\* `constructor() { this.peer = A.resolveDependency(key) }`.
ClientClasses == {"LoggerClient", "ConfigClient", "MissingClient"}

\* The key a client class asks for.
Wanted(c) ==
  IF c = "LoggerClient" THEN "Logger"
  ELSE IF c = "ConfigClient" THEN "config" ELSE MissingKey

\* A thrown string (`throw 'not ready'`): a value with no `message`
\* property.
ThrownString == JsError("string", <<>>)

\* err.message is defined.
HasMessage(err) == err # ThrownString

\* `new object()` with no arguments.  Besides the classes of ClassNames:
\* the client classes; Factory, whose constructor returns the class Logger
\* (`return Logger`, an object, which `new` then yields); Scheduler, whose
\* constructor throws a string.
New(object) ==
  IF object.tag = "class"
  THEN IF object.name = "Database"
       THEN Thrown(JsError("Error", <<"missing required state">>))
       ELSE IF object.name = "Gateway"
            THEN Thrown(JsError("TypeError", <<"driver", NotAConstructor>>))
            ELSE IF object.name = "Scheduler"
            THEN Thrown(ThrownString)
            ELSE IF object.name = "Factory"
            THEN Returned(ClassRef("Logger"))
            ELSE IF object.name \in ClientClasses
            THEN LET got == ReentrantOutcome(Observed,
                                             StringKey(Wanted(object.name)))
                 IN IF got.threw
                    THEN Thrown(got.error)
                    ELSE Returned([tag |-> "instance", name |-> object.name,
                                   props |-> [p \in {"peer"} |-> got.value.tag]])
            ELSE Returned([tag |-> "instance", name |-> object.name,
                           props |-> CtorProps(object.name)])
  ELSE Thrown(JsError("TypeError", <<"object", NotAConstructor>>))

\* The constructors `new object()` runs, by class name: the constructor
\* of a class, none for a value that is not a function.
ConstructorRuns(object) ==
  IF object.tag = "class" THEN <<object.name>> ELSE <<>>

\* A constructable check that inspects the value without constructing it.
ProbeRuns_None(object) == <<>>

\* The constructors the `new object()` of isConstructable runs.
ProbeRuns(object) == ConstructorRuns(object)

\* The constructors the `new object()` of buildConstructable runs.
BuildRuns(object) == ConstructorRuns(object)

\* isConstructable(object) ends in a throw of its own: its catch block
\* reads err.message.indexOf, a TypeError when the caught value has no
\* message.
isConstructableThrows(object) ==
  LET probe == New(object)
  IN probe.threw /\ ~HasMessage(probe.error)

\* The constructable check with no probe: every value is to be built.
isConstructable_Always(object) == TRUE

\* What isConstructable(object) returns, when it returns.
isConstructable(object) ==
  LET probe == New(object)
  IN IF probe.threw /\ MessageHas(probe.error, NotAConstructor)
     THEN FALSE
     ELSE TRUE

\* Statics copied only where the constructor left the property unset.
CopyStatics_KeepInstance(instance, c) ==
  [instance EXCEPT !.props =
     [p \in (DOMAIN instance.props) \cup (DOMAIN Statics(c)) |->
        IF p \in DOMAIN instance.props THEN instance.props[p] ELSE Statics(c)[p]]]

\* Object.keys(object) of a constructor reference, then the copy loop.
CopyStatics(instance, c) ==
  [instance EXCEPT !.props =
     [p \in (DOMAIN instance.props) \cup (DOMAIN Statics(c)) |->
        IF p \in DOMAIN Statics(c) THEN Statics(c)[p] ELSE instance.props[p]]]

\* buildConstructable without the construction: the reference is stored.
buildConstructable_Raw(object) == Returned(object)

buildConstructable(object) ==
  LET made == New(object)
  IN IF made.threw
     THEN made
     ELSE Returned(CopyStatics(made.value, object.name))

\* The forEach of initialize from entry i on: the container it leaves, the
\* error that ended it, if any, and the constructors it ran, in order.
RECURSIVE InitializeFrom(_, _)
InitializeFrom(container, i) ==
  IF i > Len(container)
  THEN [container |-> container, outcome |-> Returned(Undefined),
        runs |-> <<>>]
  ELSE LET val == container[i].val
       IN IF isConstructableThrows(val)
          THEN [container |-> container, outcome |-> Thrown(UndefinedAccess),
                runs |-> ProbeRuns(val)]
          ELSE IF isConstructable(val)
          THEN LET built == buildConstructable(val)
               IN IF built.threw
                  THEN [container |-> container, outcome |-> built,
                        runs |-> ProbeRuns(val) \o BuildRuns(val)]
                  ELSE LET rest == InitializeFrom(
                                     register(container, container[i].key,
                                              built.value),
                                     i + 1)
                       IN [rest EXCEPT
                             !.runs = ProbeRuns(val) \o BuildRuns(val) \o @]
          ELSE LET rest == InitializeFrom(
                             register(container, container[i].key, val),
                             i + 1)
               IN [rest EXCEPT !.runs = ProbeRuns(val) \o @]

\* initialize() with the forEach wrapped in a try/catch that drops the error.
ContainerInitialize_Swallow(container) ==
  [InitializeFrom(container, 1) EXCEPT !.outcome = Returned(Undefined)]

\* DependencyContainer.initialize()
ContainerInitialize(container) == InitializeFrom(container, 1)

\* ---------------------------------------------------------------- lifecycle
\* A is a router-adapted module, B a plain service module.
KindOf(m) == IF m = "A" THEN "express" ELSE "service"

\* The scenarios followed: the round trip, and a set-up followed by
\* initialize.
RoundTrip == <<"initialize", "destroy", "providers", "initialize">>
SetUp == <<"providers", "initialize">>

IsPrefix(s, t) == Len(s) <= Len(t) /\ SubSeq(t, 1, Len(s)) = s
Suffix(s, n) == SubSeq(s, Len(s) - n + 1, Len(s))

\* The trail after one more lifecycle call of the observed module: the
\* longest end of its successful calls that begins a scenario; a call that
\* throws ends every scenario.
Followed(m, op, ok) ==
  LET all == Append(trail, op)
      fits == {n \in 0..Len(all) :
                 IsPrefix(Suffix(all, n), RoundTrip) \/ IsPrefix(Suffix(all, n), SetUp)}
  IN IF m # Observed
     THEN trail
     ELSE IF ~ok
          THEN <<>>
          ELSE Suffix(all, CHOOSE n \in fits : \A k \in fits : k <= n)

\* The record of a call: what it was and how it ended.
Call(m, op, arg, outcome) ==
  [module |-> m, op |-> op, arg |-> arg, outcome |-> outcome]

Init ==
  /\ kind = [m \in Subtypes |-> "undeclared"]
  /\ dependencies = [m \in Subtypes |-> Unset]
  /\ providerKeys = [c \in Subtypes \cup {Base} |-> <<>>]
  /\ ownsProviderKeys = [m \in Subtypes |-> FALSE]
  /\ _initialized = [m \in Subtypes |-> FALSE]
  /\ _expressRouter = [m \in Subtypes |-> "undefined"]
  /\ last = Call(Base, "none", NoArg, Returned(Undefined))
  /\ trail = <<>>
  /\ accepted = EmptyContainer
  /\ formerKeys = {}
  /\ supplied = "undefined"
  /\ standalone = EmptyContainer
  /\ variant = "none"
  /\ streak = 0

\* The forEach of the setter: each provider's key is pushed and registered.
RECURSIVE RegisterAll(_, _, _)
RegisterAll(myProviders, i, acc) ==
  IF i > Len(myProviders)
  THEN acc
  ELSE LET injectionKey == KeyOf(myProviders[i].provide)
       IN RegisterAll(myProviders, i + 1,
            [keys |-> Append(acc.keys, injectionKey),
             entries |-> register(acc.entries, injectionKey,
                                  myProviders[i].useClass)])

\* The lifecycle calls with their test of the flag left out.
CanSetProviders_Always(m) == TRUE
CanInitialize_Always(m) == TRUE
CanDestroy_Always(m) == TRUE

\* The test each lifecycle call makes of the flag before it acts.
CanSetProviders(m) == ~_initialized[m]
CanInitialize(m) == ~_initialized[m]
CanDestroy(m) == _initialized[m]

\* destroy() without the reset of providerKeys.
KeysAfterDestroy_Kept(m) == KeysOf(m)

\* The array destroy() leaves as the receiver's providerKeys.
KeysAfterDestroy(m) == <<>>

\* static set providers(myProviders), receiver m.
SetProvidersEffect(m, myProviders) ==
  IF CanSetProviders(m)
  THEN LET done == RegisterAll(myProviders, 1,
                     [keys |-> KeysOf(m), entries |-> EmptyContainer])
       IN /\ dependencies' = [dependencies EXCEPT ![m] = Container(done.entries)]
          /\ providerKeys' = [providerKeys EXCEPT ![KeyHolder(m)] = done.keys]
          /\ accepted' = IF m = Observed THEN done.entries ELSE accepted
          /\ trail' = Followed(m, "providers", TRUE)
          /\ last' = Call(m, "providers", NoArg, Returned(Undefined))
  ELSE /\ dependencies' = [dependencies EXCEPT ![m] = Container(EmptyContainer)]
       /\ trail' = Followed(m, "providers", FALSE)
       /\ last' = Call(m, "providers", NoArg, Thrown(ProvidersAfterInit))
       /\ UNCHANGED <<providerKeys, accepted>>

\* class M extends ServiceModule {} / class M extends ExpressServiceModule {}
Declare(m) ==
  /\ kind[m] = "undeclared"
  /\ kind' = [kind EXCEPT ![m] = KindOf(m)]
  /\ UNCHANGED <<moduleVars, last, record>>
  /\ UNCHANGED standaloneVars

\* M.providers = myProviders, also what @serviceModule({providers}) does.
SetProviders(m, myProviders) ==
  /\ kind[m] # "undeclared"
  /\ _initialized[m] \/ Len(KeysOf(m)) + Len(myProviders) <= MaxKeys
  /\ SetProvidersEffect(m, myProviders)
  /\ UNCHANGED <<kind, ownsProviderKeys, _initialized, _expressRouter,
                 formerKeys, supplied>>
  /\ UNCHANGED standaloneVars

\* @expressServiceModule({expressRouter, providers}) class M extends
\* ExpressServiceModule {}: the decorator runs when the class is defined.
ExpressDecorate(m, expressRouter, myProviders) ==
  /\ kind[m] = "undeclared"
  /\ KindOf(m) = "express"
  /\ Len(KeysOf(m)) + Len(myProviders) <= MaxKeys
  /\ kind' = [kind EXCEPT ![m] = "express"]
  /\ _expressRouter' = [_expressRouter EXCEPT ![m] = expressRouter]
  /\ supplied' = expressRouter
  /\ SetProvidersEffect(m, myProviders)
  /\ UNCHANGED <<ownsProviderKeys, _initialized, formerKeys>>
  /\ UNCHANGED standaloneVars

\* static initialize(), receiver m.
Initialize(m) ==
  /\ kind[m] # "undeclared"
  /\ IF CanInitialize(m)
     THEN IF ~dependencies[m].defined
          THEN /\ last' = Call(m, "initialize", NoArg, Thrown(UndefinedAccess))
               /\ trail' = Followed(m, "initialize", FALSE)
               /\ UNCHANGED <<dependencies, _initialized>>
          ELSE LET run == ContainerInitialize(dependencies[m].entries)
               IN /\ dependencies' =
                       [dependencies EXCEPT ![m] = Container(run.container)]
                  /\ _initialized' =
                       [_initialized EXCEPT
                          ![m] = IF run.outcome.threw THEN @ ELSE TRUE]
                  /\ trail' = Followed(m, "initialize", ~run.outcome.threw)
                  /\ last' = Call(m, "initialize", NoArg, run.outcome)
     ELSE /\ last' = Call(m, "initialize", NoArg, Thrown(AlreadyInitialized))
          /\ trail' = Followed(m, "initialize", FALSE)
          /\ UNCHANGED <<dependencies, _initialized>>
  /\ UNCHANGED <<kind, providerKeys, ownsProviderKeys, _expressRouter,
                 accepted, formerKeys, supplied>>
  /\ UNCHANGED standaloneVars

\* static destroy(), receiver m.
Destroy(m) ==
  /\ kind[m] # "undeclared"
  /\ IF CanDestroy(m)
     THEN /\ dependencies' = [dependencies EXCEPT ![m] = Container(EmptyContainer)]
          /\ providerKeys' = [providerKeys EXCEPT ![m] = KeysAfterDestroy(m)]
          /\ ownsProviderKeys' = [ownsProviderKeys EXCEPT ![m] = TRUE]
          /\ _initialized' = [_initialized EXCEPT ![m] = FALSE]
          /\ trail' = Followed(m, "destroy", TRUE)
          /\ formerKeys' = IF m = Observed THEN KeySet(accepted) ELSE formerKeys
          /\ last' = Call(m, "destroy", NoArg, Returned(Undefined))
     ELSE /\ last' = Call(m, "destroy", NoArg, Thrown(NoInstance))
          /\ trail' = Followed(m, "destroy", FALSE)
          /\ UNCHANGED <<dependencies, providerKeys, ownsProviderKeys,
                         _initialized, formerKeys>>
  /\ UNCHANGED <<kind, _expressRouter, accepted, supplied>>
  /\ UNCHANGED standaloneVars

\* static resolveDependency(dependency), receiver m.
ResolveDependency(m, dependency) ==
  /\ kind[m] # "undeclared"
  /\ last' = Call(m, "resolveDependency", dependency,
                  ResolveOutcome(m, dependency))
  /\ UNCHANGED <<kind, moduleVars, record>>
  /\ UNCHANGED standaloneVars

\* The getter without its test of the flag.
RouterOutcome_Unguarded(m) == Returned(ObjectValue(_expressRouter[m]))

\* What the expressRouter getter does on receiver m.
RouterOutcome(m) ==
  IF ~_initialized[m]
  THEN Thrown(NotInitialized)
  ELSE Returned(ObjectValue(_expressRouter[m]))

\* static get expressRouter(), receiver m (an ExpressServiceModule subtype).
ExpressRouter(m) ==
  /\ kind[m] = "express"
  /\ last' = Call(m, "expressRouter", NoArg, RouterOutcome(m))
  /\ UNCHANGED <<kind, moduleVars, record>>
  /\ UNCHANGED standaloneVars

\* One module on its own: every call on the observed module, with every
\* provider list.
Next ==
  \/ Declare(Observed)
  \/ \E P \in ProviderLists : SetProviders(Observed, P)
  \/ \E r \in Routers, P \in ProviderLists : ExpressDecorate(Observed, r, P)
  \/ Initialize(Observed)
  \/ Destroy(Observed)
  \/ \E d \in Dependencies : ResolveDependency(Observed, d)
  \/ ExpressRouter(Observed)

Spec == Init /\ [][Next]_vars

\* Two subtypes side by side, with short provider lists.
NextPair ==
  \/ \E m \in Subtypes : Declare(m)
  \/ \E m \in Subtypes, P \in ShortLists : SetProviders(m, P)
  \/ \E m \in Subtypes : Initialize(m)
  \/ \E m \in Subtypes : Destroy(m)
  \/ \E m \in Subtypes, d \in Dependencies : ResolveDependency(m, d)

SpecPair == Init /\ [][NextPair]_vars

\* What the program provides under each key when its classes call back
\* into the module, return another constructor or throw a string.
ConstructorsFor(k) ==
  IF k = "Logger"
  THEN {ClassRef("Logger"), ClassRef("Factory")}
  ELSE {ClassRef(c) : c \in ClientClasses}
       \cup {ClassRef("Scheduler"), ClassRef("Database")}

\* The providers of such a program.
ConstructorProviders ==
  UNION {{[provide |-> StringKey(k), useClass |-> v] :
            v \in ConstructorsFor(k)} : k \in Keys}

\* The provider lists of such a program.
ConstructorLists ==
  UNION {[1..n -> ConstructorProviders] : n \in 0..MaxProviders}

\* One module whose providers are such classes.
NextConstructors ==
  \/ Declare(Observed)
  \/ \E P \in ConstructorLists : SetProviders(Observed, P)
  \/ Initialize(Observed)
  \/ Destroy(Observed)
  \/ \E d \in Dependencies : ResolveDependency(Observed, d)

SpecConstructors == Init /\ [][NextConstructors]_vars

\* ------------------------------------------- the container used directly
\* The two source files of DependencyContainer: the one whose initialize()
\* asks isConstructable first, and the one whose initialize() constructs
\* every value.
Variants == {"heuristic", "legacy"}

\* The receiver of the calls made on the container directly.
Standalone == "DependencyContainer"

\* The forEach of the legacy initialize from entry i on: every value is
\* constructed and the result registered, no static is copied.
RECURSIVE LegacyInitializeFrom(_, _)
LegacyInitializeFrom(container, i) ==
  IF i > Len(container)
  THEN [container |-> container, outcome |-> Returned(Undefined),
        runs |-> <<>>]
  ELSE LET val == container[i].val
           made == New(val)
       IN IF made.threw
          THEN [container |-> container, outcome |-> made,
                runs |-> ConstructorRuns(val)]
          ELSE LET rest == LegacyInitializeFrom(
                             register(container, container[i].key, made.value),
                             i + 1)
               IN [rest EXCEPT !.runs = ConstructorRuns(val) \o @]

\* DependencyContainer.initialize() of the legacy file.
LegacyInitialize(container) == LegacyInitializeFrom(container, 1)

\* What the program registers under each key of a container it uses
\* directly.
ValuesFor(k) ==
  IF k = "Logger"
  THEN {ClassRef("Logger"), ClassRef("Gateway")}
  ELSE {ObjectValue("configValue"), ClassRef("Database"),
        ClassRef("Factory"), ClassRef("Scheduler")}

\* new DependencyContainer(), from one of the two files.
MakeContainer(v) ==
  /\ variant = "none"
  /\ variant' = v
  /\ UNCHANGED <<kind, moduleVars, last, record, standalone, streak>>

\* container.register(key, value)
StandaloneRegister(key, value) ==
  /\ variant # "none"
  /\ standalone' = register(standalone, key, value)
  /\ streak' = 0
  /\ last' = Call(Standalone, "register", StringKey(key), Returned(Undefined))
  /\ UNCHANGED <<kind, moduleVars, record, variant>>

\* container.initialize()
StandaloneInitialize ==
  /\ variant # "none"
  /\ LET run == IF variant = "legacy"
                THEN LegacyInitialize(standalone)
                ELSE ContainerInitialize(standalone)
     IN /\ standalone' = run.container
        /\ last' = Call(Standalone, "initialize", NoArg, run.outcome)
  /\ streak' = IF streak < MaxStreak THEN streak + 1 ELSE streak
  /\ UNCHANGED <<kind, moduleVars, record, variant>>

\* container.resolve(key)
StandaloneResolve(key) ==
  /\ variant # "none"
  /\ last' = Call(Standalone, "resolve", StringKey(key),
                  Returned(resolve(standalone, key)))
  /\ UNCHANGED <<kind, moduleVars, record, standaloneVars>>

\* A container used on its own.
NextContainer ==
  \/ \E v \in Variants : MakeContainer(v)
  \/ \E k \in Keys : \E value \in ValuesFor(k) : StandaloneRegister(k, value)
  \/ StandaloneInitialize
  \/ \E k \in Keys \cup {MissingKey} : StandaloneResolve(k)

SpecContainer == Init /\ [][NextContainer]_vars

\* ------------------------------------------------------------------ claims
\* The last call was resolveDependency on the observed module.
Resolved == last.module = Observed /\ last.op = "resolveDependency"

\* The observed module's last lifecycle calls were an accepted provider
\* assignment and then a successful initialize.
SetUpDone == Len(trail) >= Len(SetUp) /\ Suffix(trail, Len(SetUp)) = SetUp

\* Zero-argument construction of the value fails as "not a constructor".
FailsAsNotAConstructor(value) ==
  New(value).threw /\ MessageHas(New(value).error, NotAConstructor)

IsInstanceOf(value, class) ==
  value.tag = "instance" /\ value.name = class.name

C2_UnlistedKeyIsRejected ==
  (Resolved /\ _initialized[Observed]
     /\ KeyOf(last.arg) \notin KeySet(accepted)) =>
    last.outcome = Thrown(NothingProvided(KeyOf(last.arg)))

\* A call on module a.
CallOn(a) ==
  \/ (\E P \in ShortLists : SetProviders(a, P))
  \/ Initialize(a)
  \/ Destroy(a)
  \/ (\E d \in Dependencies : ResolveDependency(a, d))

\* C3 as stated: a call on one subtype leaves the container, the
\* registered keys and the initialized flag of every other subtype as they
\* were.
C3_OtherSubtypeUntouched ==
  [][\A a \in Subtypes : \A b \in Subtypes \ {a} :
       CallOn(a) =>
         /\ dependencies'[b] = dependencies[b]
         /\ (KeysOf(b))' = KeysOf(b)
         /\ _initialized'[b] = _initialized[b]]_vars

\* C4: initialize() right after a successful initialize() of the same
\* module throws the already-initialized error.
C4_SecondInitializeRejected ==
  [][(Initialize(Observed) /\ trail # <<>>
        /\ trail[Len(trail)] = "initialize") =>
       /\ last'.outcome = Thrown(AlreadyInitialized)
       /\ _initialized'[Observed]]_vars

\* C4 witness: initialize() has just been rejected as a second
\* initialization.
C4_Witness ==
  /\ last.module = Observed /\ last.op = "initialize"
  /\ last.outcome = Thrown(AlreadyInitialized)
  /\ _initialized[Observed]

\* C5: resolveDependency on a module whose flag is not set throws the
\* not-initialized error, whatever the key.
C5_ResolveNeedsInitialize ==
  (last.op = "resolveDependency" /\ ~_initialized[last.module]) =>
    last.outcome = Thrown(NotInitialized)

\* C5 witness: a registered key was refused after destroy().
C5_Witness ==
  /\ Resolved /\ last.outcome = Thrown(NotInitialized)
  /\ trail # <<>> /\ trail[Len(trail)] = "destroy"
  /\ KeyOf(last.arg) \in formerKeys

\* C6: destroy() on a module whose flag is not set throws the
\* not-initialized error and changes no static member.
C6_DestroyNeedsInitialize ==
  [][(Destroy(Observed) /\ ~_initialized[Observed]) =>
       /\ last'.outcome = Thrown(NoInstance)
       /\ UNCHANGED moduleVars]_vars

\* C6 witness: destroy() was refused on a module holding providers.
C6_Witness ==
  /\ last.module = Observed /\ last.op = "destroy"
  /\ last.outcome = Thrown(NoInstance)
  /\ dependencies[Observed].defined
  /\ Len(dependencies[Observed].entries) > 0

\* C7: a provider assignment on an initialized module throws the
\* providers-after-initialize error, and no provider of the list is
\* registered: the registered keys stay as they were and the container the
\* call leaves holds no entry at all.
C7_ProvidersRejectedAfterInitialize ==
  [][(_initialized[Observed] /\ last'.op = "providers"
        /\ \E P \in ProviderLists : SetProviders(Observed, P)) =>
       /\ last'.outcome = Thrown(ProvidersAfterInit)
       /\ (KeysOf(Observed))' = KeysOf(Observed)
       /\ KeySet(dependencies'[Observed].entries) = {}
       /\ _initialized'[Observed]]_vars

\* C7 witness: an assignment was rejected on an initialized module.
C7_Witness ==
  /\ last.module = Observed /\ last.op = "providers"
  /\ last.outcome = Thrown(ProvidersAfterInit)
  /\ _initialized[Observed]

\* What resolveDependency gives on a module that was only ever given the
\* providers registered as `entries`, and initialized.
FreshOutcome(entries, key) ==
  IF key \in KeySet(entries)
  THEN Returned(resolve(ContainerInitialize(entries).container, key))
  ELSE Thrown(NothingProvided(key))

\* C8: after initialize, destroy, a provider assignment and initialize,
\* resolveDependency answers as on a fresh module given the assigned list
\* alone: its keys resolve to its values, every other key is rejected.
C8_RoundTripIsFresh ==
  (Resolved /\ trail = RoundTrip) =>
    last.outcome = FreshOutcome(accepted, KeyOf(last.arg))

\* C8 witness: after a round trip, a key of the first list that the second
\* list lacks was rejected.
C8_Witness ==
  /\ Resolved /\ trail = RoundTrip
  /\ accepted # EmptyContainer
  /\ KeyOf(last.arg) \in formerKeys \ KeySet(accepted)
  /\ last.outcome = Thrown(NothingProvided(KeyOf(last.arg)))

\* No entry of the module's container fails to construct.
NoConstructionThrows(m) ==
  \A i \in 1..Len(dependencies[m].entries) :
    LET val == dependencies[m].entries[i].val
    IN FailsAsNotAConstructor(val) \/ ~New(val).threw

\* C9 as stated: initialize() on a module whose flag is not set, none of
\* whose providers fails to construct, returns and sets the flag; also on
\* a module that was never given providers.
C9_InitializeSucceeds ==
  [][(Initialize(Observed) /\ ~_initialized[Observed]
        /\ NoConstructionThrows(Observed)) =>
       /\ ~last'.outcome.threw
       /\ _initialized'[Observed]]_vars

\* C10: the expressRouter getter of a decorated module throws the
\* not-initialized error while the flag is not set, and otherwise returns
\* the handle its decorator was given.
C10_RouterGetter ==
  (last.op = "expressRouter" /\ supplied \in Routers) =>
    last.outcome = IF _initialized[last.module]
                   THEN Returned(ObjectValue(supplied))
                   ELSE Thrown(NotInitialized)

\* C10 witness: the getter returned the decorator's handle after a round
\* trip.
C10_Witness ==
  /\ last.op = "expressRouter" /\ supplied \in Routers
  /\ trail = RoundTrip
  /\ last.outcome = Returned(ObjectValue(supplied))

\* C11 as stated: a provider assignment rejected because the module is
\* initialized leaves the container, the registered keys and the flag as
\* they were, so every key resolves after it as it did before.
C11_RejectedAssignmentChangesNothing ==
  [][(_initialized[Observed] /\ last'.op = "providers"
        /\ \E P \in ProviderLists : SetProviders(Observed, P)) =>
       /\ dependencies'[Observed] = dependencies[Observed]
       /\ (KeysOf(Observed))' = KeysOf(Observed)
       /\ _initialized'[Observed] = _initialized[Observed]
       /\ \A d \in Dependencies :
            (ResolveOutcome(Observed, d))' = ResolveOutcome(Observed, d)]_vars

\* The registered keys of a module, as a set.
RegisteredKeys(m) == {KeysOf(m)[i] : i \in 1..Len(KeysOf(m))}

\* C12 as stated: in every reachable state the keys in the registered-key
\* list of the observed module are the keys its container stores.
C12_KeyListMatchesContainer ==
  RegisteredKeys(Observed) = KeySet(dependencies[Observed].entries)

\* Construction of the value throws an error that initialize() lets through:
\* the probe does not take it for a non-constructor, and the build repeats
\* the throw.
Stops(value) == New(value).threw /\ ~FailsAsNotAConstructor(value)

\* The first entry, in container order, whose construction stops
\* initialize().
FirstStop(entries) ==
  CHOOSE i \in 1..Len(entries) :
    /\ Stops(entries[i].val)
    /\ \A j \in 1..(i - 1) : ~Stops(entries[j].val)

\* Reaching the value ends the forEach of the container's initialize():
\* its construction throws and, in the file with the constructable check,
\* not as "not a constructor".
Halts(value) ==
  IF variant = "legacy" THEN New(value).threw ELSE Stops(value)

\* The forEach comes to entry i and gets past it.
Passes(entries, i) == \A j \in 1..i : ~Halts(entries[j].val)

\* The result is what `new value()` yields, properties aside.
IsBuiltFrom(result, value) ==
  /\ ~New(value).threw
  /\ result.tag = New(value).value.tag
  /\ result.name = New(value).value.name

IsClient(value) == value.tag = "class" /\ value.name \in ClientClasses

\* C14: while initialize() runs, the flag is still unset: when it comes to
\* construct a class whose constructor calls resolveDependency(k) on the
\* module, that call fails as not initialized, whatever k, also for a key
\* whose provider the same initialize() has already instantiated; the
\* constructor lets the error through, so initialize() ends with it and
\* the flag stays unset.
C14_ReentrantResolveIsRejected ==
  [][(Initialize(Observed) /\ ~_initialized[Observed]
        /\ dependencies[Observed].defined
        /\ \E i \in 1..Len(dependencies[Observed].entries) :
             /\ IsClient(dependencies[Observed].entries[i].val)
             /\ \A j \in 1..(i - 1) :
                  ~Stops(dependencies[Observed].entries[j].val)) =>
       /\ last'.outcome = Thrown(NotInitialized)
       /\ ~_initialized'[Observed]]_vars

\* C14 witness: initialize() instantiated the Logger provider and then
\* failed as not initialized in the constructor that asked for "Logger".
C14_Witness ==
  /\ last.module = Observed /\ last.op = "initialize"
  /\ last.outcome = Thrown(NotInitialized)
  /\ Len(dependencies[Observed].entries) = 2
  /\ dependencies[Observed].entries[1].key = "Logger"
  /\ IsInstanceOf(dependencies[Observed].entries[1].val, ClassRef("Logger"))
  /\ dependencies[Observed].entries[2].val = ClassRef("LoggerClient")

\* How many times the constructor of class c appears in a list of runs.
Count(runs, c) == Cardinality({j \in 1..Len(runs) : runs[j] = c})

\* C15 as stated: during one successful initialize(), the constructor of
\* each class-valued provider is executed exactly once.
C15_ConstructorRunsOnce ==
  [][(Initialize(Observed) /\ ~_initialized[Observed]
        /\ dependencies[Observed].defined /\ ~last'.outcome.threw) =>
       LET before == dependencies[Observed].entries
           runs == ContainerInitialize(before).runs
       IN \A i \in 1..Len(before) :
            before[i].val.tag = "class" =>
              Count(runs, before[i].val.name) = 1]_vars

\* C15 amended: during one successful initialize(), the constructor of each
\* class-valued provider that is instantiated is executed exactly twice,
\* once by the constructable check and once by the build whose instance is
\* stored; the constructor of a class the check takes for non-constructable
\* is executed once, by the check, and the class stays stored.
C15_ConstructorRunsTwice ==
  [][(Initialize(Observed) /\ ~_initialized[Observed]
        /\ dependencies[Observed].defined /\ ~last'.outcome.threw) =>
       LET before == dependencies[Observed].entries
           after == dependencies'[Observed].entries
           runs == ContainerInitialize(before).runs
       IN \A i \in 1..Len(before) :
            before[i].val.tag = "class" =>
              IF FailsAsNotAConstructor(before[i].val)
              THEN /\ Count(runs, before[i].val.name) = 1
                   /\ after[i].val = before[i].val
              ELSE /\ Count(runs, before[i].val.name) = 2
                   /\ IsInstanceOf(after[i].val, before[i].val)]_vars

\* C15 witness: a successful initialize() of the list (Logger class, config
\* literal) ran the Logger constructor twice and nothing else.
C15_Witness ==
  /\ last.module = Observed /\ last.op = "initialize"
  /\ ~last.outcome.threw /\ SetUpDone
  /\ Len(accepted) = 2
  /\ accepted[1].val = ClassRef("Logger")
  /\ ContainerInitialize(accepted).runs = <<"Logger", "Logger">>
  /\ IsInstanceOf(dependencies[Observed].entries[1].val, ClassRef("Logger"))

C17_OtherOutcomesAreBuilt ==
  [][(StandaloneInitialize /\ variant = "heuristic"
        /\ Len(standalone) >= 1) =>
       LET value == standalone[1].val
           stored == standalone'[1].val
       IN IF FailsAsNotAConstructor(value)
          THEN stored = value
          ELSE IF New(value).threw
               THEN /\ last'.outcome = Thrown(New(value).error)
                    /\ stored = value
               ELSE IsBuiltFrom(stored, value)]_vars

\* C18: the container's initialize() replaces entries in place: the keys
\* and their order are after the call what they were before it; an entry
\* whose value was constructable holds what its construction built, once
\* the forEach has got past it (every such entry, when the call returns),
\* and every other entry holds the value it held before.
C18_InitializeReplacesInPlace ==
  [][(StandaloneInitialize /\ variant = "heuristic") =>
       LET before == standalone
           after == standalone'
       IN /\ Len(after) = Len(before)
          /\ \A i \in 1..Len(before) :
               /\ after[i].key = before[i].key
               /\ IF ~FailsAsNotAConstructor(before[i].val)
                     /\ Passes(before, i)
                  THEN IsBuiltFrom(after[i].val, before[i].val)
                  ELSE after[i].val = before[i].val
          /\ ~last'.outcome.threw =>
               \A i \in 1..Len(before) :
                 FailsAsNotAConstructor(before[i].val) \/ Passes(before, i)]_vars

\* C18 witness: the first initialize() after the registrations returned
\* and left the config literal registered first in the first place, as it
\* was, and an instance of Logger in the second.
C18_Witness ==
  /\ variant = "heuristic" /\ streak = 1
  /\ last.module = Standalone /\ last.op = "initialize"
  /\ ~last.outcome.threw
  /\ Len(standalone) = 2
  /\ standalone[1] = [key |-> "config", val |-> ObjectValue("configValue")]
  /\ standalone[2].key = "Logger"
  /\ IsInstanceOf(standalone[2].val, ClassRef("Logger"))

\* C19: the instance initialize() stores for a constructable class carries
\* every own enumerable property of the class with the class's value for
\* it, also where the constructor set a property of that name on the
\* instance.
C19_StaticsWin ==
  [][(StandaloneInitialize /\ variant = "heuristic") =>
       \A i \in 1..Len(standalone) :
         LET object == standalone[i].val
             stored == standalone'[i].val
         IN (object.tag = "class" /\ ~FailsAsNotAConstructor(object)
               /\ Passes(standalone, i)) =>
              \A p \in DOMAIN Statics(object.name) :
                /\ p \in DOMAIN stored.props
                /\ stored.props[p] = Statics(object.name)[p]]_vars

\* C19 witness: initialize() stored a Logger instance whose `level`, which
\* the constructor sets, has the value of the static `level`, next to the
\* `sink` the constructor gave it.
C19_Witness ==
  /\ variant = "heuristic"
  /\ last.module = Standalone /\ last.op = "initialize"
  /\ Len(standalone) >= 1
  /\ IsInstanceOf(standalone[1].val, ClassRef("Logger"))
  /\ "level" \in DOMAIN CtorProps("Logger")
  /\ CtorProps("Logger")["level"] # Statics("Logger")["level"]
  /\ standalone[1].val.props["level"] = Statics("Logger")["level"]
  /\ standalone[1].val.props["sink"] = CtorProps("Logger")["sink"]

====
